---------------------------- MODULE Spec2Model ----------------------------
(***************************************************************************)
(* CarbonOracle (src/app_streamlit.py): the pipeline that is run on an     *)
(* uploaded workbook, from the retention-time scan (line 232) to the       *)
(* sorted result list (line 377).                                          *)
(*                                                                         *)
(* One run is one behaviour: Init fixes the workbook (the standard sheet,  *)
(* the reaction sheet and the reaction sheet's columns), the actions are   *)
(* the consecutive blocks of the script, pc is the script's position.      *)
(*                                                                         *)
(* Representation.                                                         *)
(*  - A cell that pandas reads as NaN/None is the empty sequence <<>>, a   *)
(*    cell with a value v is <<v>>  (pd.notna(c)  is  c # <<>>).           *)
(*  - Retention times are integers in thousandths of a time unit.          *)
(*  - Peak areas and concentrations of the sheets are integers; every      *)
(*    value computed from them is a binary floating-point number with a    *)
(*    MantBits-bit significand, round-to-nearest-even, with the special    *)
(*    values inf and nan (the source computes in IEEE doubles, 53 bits;    *)
(*    exponent range is not limited here).                                 *)
(*  - A percentage rounded to 2 places is kept as its number of            *)
(*    hundredths, a carbon mass rounded to 4 places as its number of       *)
(*    ten-thousandths (numpy's round is rint(x * 10^d) / 10^d).            *)
(***************************************************************************)
EXTENDS Integers, Sequences, FiniteSets, TLC

\* Significand width of the modelled floating-point numbers.
MantBits == 20

\* Longest reaction sheet of the generic families, in rows.
MaxRows == 3

\* Largest number of enzyme blocks of the yield family.
MaxEnz == 2

---------------------------------------------------------------------------
(* Floating point *)

Pow2(n) == 2 ^ n

MantMin == Pow2(MantBits - 1)

MantMax == Pow2(MantBits)

Min(a, b) == IF a <= b THEN a ELSE b

RECURSIVE BitLen(_)
BitLen(v) == IF v = 0 THEN 0 ELSE 1 + BitLen(v \div 2)

NaN == [k |-> "nan", m |-> 0, e |-> 0]

Inf == [k |-> "inf", m |-> 0, e |-> 0]

Zero == [k |-> "num", m |-> 0, e |-> 0]

Num(mant, ex) == [k |-> "num", m |-> mant, e |-> ex]

IsNaN(x) == x.k = "nan"

IsInf(x) == x.k = "inf"

IsZero(x) == x.k = "num" /\ x.m = 0

\* The float nearest to (v + d) * 2^ex, where 0 < d < 1 if sticky and d = 0
\* otherwise: ties go to the even significand.
RoundSig(v, sticky, ex) ==
    IF v = 0 THEN Zero
    ELSE LET n == BitLen(v) IN
         IF n <= MantBits
         THEN Num(v * Pow2(MantBits - n), ex - (MantBits - n))
         ELSE LET kk == n - MantBits
                  q == v \div Pow2(kk)
                  r == v % Pow2(kk)
                  half == Pow2(kk - 1)
                  up == \/ r > half
                        \/ r = half /\ sticky
                        \/ r = half /\ ~sticky /\ q % 2 = 1
                  q2 == IF up THEN q + 1 ELSE q
              IN IF q2 = MantMax THEN Num(MantMin, ex + kk + 1)
                                 ELSE Num(q2, ex + kk)

\* int -> float (exact for the small integers of the sheets).
FromInt(n) == RoundSig(n, FALSE, 0)

\* A cell of a numeric column as a float: NaN for an empty cell.
CellFloat(c) == IF c = <<>> THEN NaN ELSE FromInt(c[1])

\* x * y, both >= 0.
FMul(x, y) ==
    IF IsNaN(x) \/ IsNaN(y) THEN NaN
    ELSE IF IsInf(x) \/ IsInf(y)
         THEN (IF IsZero(x) \/ IsZero(y) THEN NaN ELSE Inf)
    ELSE IF IsZero(x) \/ IsZero(y) THEN Zero
    ELSE LET h == (MantBits + 1) \div 2
             B == Pow2(h)
             a1 == x.m \div B
             b1 == x.m % B
             a2 == y.m \div B
             b2 == y.m % B
             mid == a1 * b2 + a2 * b1
             t == (mid % B) * B + b1 * b2
             W == 2 * h
             H == a1 * a2 + (mid \div B) + (t \div Pow2(W))
             L == t % Pow2(W)
         IN RoundSig(H * 16 + (L \div Pow2(W - 4)),
                     L % Pow2(W - 4) # 0,
                     x.e + y.e + W - 4)

\* <<q, r>> with q = floor(r0 * 2^n / d) and r the remainder, for r0 < d.
RECURSIVE DivBits(_, _, _)
DivBits(r0, d, n) ==
    IF n = 0 THEN <<0, r0>>
    ELSE LET c == Min(n, 30 - MantBits)
             num == r0 * Pow2(c)
             rest == DivBits(num % d, d, n - c)
         IN <<(num \div d) * Pow2(n - c) + rest[1], rest[2]>>

\* x / y, both >= 0; a division by zero gives inf or nan and no exception
\* (numpy and pandas arithmetic).
FDiv(x, y) ==
    IF IsNaN(x) \/ IsNaN(y) THEN NaN
    ELSE IF IsInf(x) THEN (IF IsInf(y) THEN NaN ELSE Inf)
    ELSE IF IsInf(y) THEN Zero
    ELSE IF IsZero(y) THEN (IF IsZero(x) THEN NaN ELSE Inf)
    ELSE IF IsZero(x) THEN Zero
    ELSE LET n == MantBits + 2
             qr == DivBits(x.m % y.m, y.m, n)
         IN RoundSig((x.m \div y.m) * Pow2(n) + qr[1], qr[2] # 0,
                     x.e - y.e - n)

\* x + y, both >= 0.
FAdd(x, y) ==
    IF IsNaN(x) \/ IsNaN(y) THEN NaN
    ELSE IF IsInf(x) \/ IsInf(y) THEN Inf
    ELSE IF IsZero(x) THEN y
    ELSE IF IsZero(y) THEN x
    ELSE LET hi == IF x.e >= y.e THEN x ELSE y
             lo == IF x.e >= y.e THEN y ELSE x
             d == hi.e - lo.e
         IN IF d > MantBits + 2 THEN hi
            ELSE RoundSig(hi.m * 8 + ((lo.m * 8) \div Pow2(d)),
                          (lo.m * 8) % Pow2(d) # 0,
                          hi.e - 3)

\* x - y for finite x >= y >= 0 (the 100 - yield_pct of line 369).
FSub(x, y) ==
    IF IsNaN(x) \/ IsNaN(y) \/ IsInf(x) THEN NaN
    ELSE IF IsZero(y) THEN x
    ELSE IF x = y THEN Zero
    ELSE LET d == x.e - y.e
         IN IF d > MantBits + 2 THEN x
            ELSE LET b8 == y.m * 8
                     s == b8 % Pow2(d) # 0
                 IN RoundSig(x.m * 8 - (b8 \div Pow2(d)) - (IF s THEN 1 ELSE 0),
                             s, x.e - 3)

\* x > 0 (False for nan).
FPositive(x) == IsInf(x) \/ (x.k = "num" /\ x.m > 0)

\* rint: the integer nearest to a finite x >= 0, ties to even.
FRint(x) ==
    IF x.e >= 0 THEN x.m * Pow2(x.e)
    ELSE LET kk == 0 - x.e IN
         IF kk > MantBits THEN 0
         ELSE LET q == x.m \div Pow2(kk)
                  r == x.m % Pow2(kk)
                  half == Pow2(kk - 1)
              IN IF r > half \/ (r = half /\ q % 2 = 1) THEN q + 1 ELSE q

\* round(x, d) of a float x >= 0, as a cell holding rint(x * 10^d): the
\* number of 10^-d units of the rounded value; <<>> when x is not a finite
\* number (nan; inf does not arise from sheets with positive standard areas).
RoundUnits(x, scale) ==
    IF x.k # "num" THEN <<>> ELSE <<FRint(FMul(x, FromInt(scale)))>>

---------------------------------------------------------------------------
(* Reference data and small helpers *)

\* c4_sugar_names of the calibration (the three names the sheets of this
\* model use; the source lists their Chinese names as well).
c4_sugar_names == {"Erythrose", "Threose", "Erythrulose"}

C6Names == {"Glucose", "Sorbose", "Tagatose", "Gulose", "Altrose", "Allose",
            "Mannose", "Galactose", "Idose", "Fructose", "Psychose", "Talose"}

\* MOLECULAR_DB with get's default: <<carbon atoms, molecular weight in
\* hundredths of g/mol>>.
MOLECULAR_DB(name) ==
    IF name = "GALD" THEN <<2, 6005>>
    ELSE IF name \in C6Names THEN <<6, 18016>>
    ELSE <<4, 12010>>

\* The float written as the decimal literal h/100 (60.05, 120.10, 180.16).
Literal100(h) == FDiv(FromInt(h), FromInt(100))

get_carbon_fraction(name) ==
    FDiv(FromInt(MOLECULAR_DB(name)[1] * 12), Literal100(MOLECULAR_DB(name)[2]))

\* 2 * 12 / 60.05
GaldCarbonFraction == FDiv(FromInt(2 * 12), Literal100(6005))

\* str(x).strip() on the cell texts of this model.
Strip(s) ==
    CASE s = " " -> ""
      [] s = "GALD " -> "GALD"
      [] s = " E1" -> "E1"
      [] OTHER -> s

AbsDiff(a, b) == IF a >= b THEN a - b ELSE b - a

\* tolerance=0.15 of scan_rt_matches, in thousandths.
Tolerance == 150

\* The 0.001 of the parser's comparison with matched_rt, in thousandths.
MatchEps == 1

\* A Python dict as the sequence of its items in insertion order: d[key] = val
\* replaces the value of a key that is present, in place, and appends a new one.
DictPut(d, key, val) ==
    IF \E i \in 1..Len(d) : d[i].key = key
    THEN [i \in 1..Len(d) |-> IF d[i].key = key THEN [key |-> key, val |-> val]
                                                ELSE d[i]]
    ELSE Append(d, [key |-> key, val |-> val])

DictHas(d, key) == \E i \in 1..Len(d) : d[i].key = key

DictGet(d, key) == d[CHOOSE i \in 1..Len(d) : d[i].key = key].val

---------------------------------------------------------------------------
(* scan_rt_matches *)

\* std_rts: the standard rows that carry a compound and a retention time.
StdRts(std) == SelectSeq(std, LAMBDA r : r.rt # <<>>)

\* reaction_df[rxn_rt_col].dropna().tolist()
RxnRts(rxn) ==
    LET withRt == SelectSeq(rxn, LAMBDA r : r.rt # <<>>)
    IN [i \in 1..Len(withRt) |-> withRt[i].rt[1]]

\* np.argmin(np.abs(rxn_rts - std_rt)): the first index of the minimum.
ClosestIdx(rts, t) ==
    CHOOSE i \in 1..Len(rts) :
        \A j \in 1..Len(rts) :
            \/ AbsDiff(rts[i], t) < AbsDiff(rts[j], t)
            \/ AbsDiff(rts[i], t) = AbsDiff(rts[j], t) /\ i <= j

\* matches[compound] of one standard.
MatchOf(std_rt, rts) ==
    IF Len(rts) = 0
    THEN [std_rt |-> std_rt, matched_rt |-> <<>>, deviation |-> <<>>,
          abs_deviation |-> <<>>, is_match |-> FALSE]
    ELSE LET closest_rt == rts[ClosestIdx(rts, std_rt)]
         IN [std_rt |-> std_rt,
             matched_rt |-> <<closest_rt>>,
             deviation |-> <<closest_rt - std_rt>>,
             abs_deviation |-> <<AbsDiff(closest_rt, std_rt)>>,
             is_match |-> AbsDiff(closest_rt, std_rt) <= Tolerance]

RECURSIVE ScanFrom(_, _, _, _)
ScanFrom(std_rts, rts, i, matches) ==
    IF i > Len(std_rts) THEN matches
    ELSE ScanFrom(std_rts, rts, i + 1,
                  DictPut(matches, std_rts[i].compound,
                          MatchOf(std_rts[i].rt[1], rts)))

scan_rt_matches(std, rxn) == ScanFrom(StdRts(std), RxnRts(rxn), 1, <<>>)

---------------------------------------------------------------------------
(* The reaction parsing loop, one row *)

\* Lines 278-286: whether the row goes through the retention-time lookup.
UsesRtLookup(has_compound, cell) ==
    ~has_compound \/ (cell # <<>> /\ Strip(cell[1]) = "")

\* Lines 281-286: the first item of rt_matches whose matched_rt is the row's
\* retention time; 0 when there is none.
RtHit(matches, rt_val) ==
    LET hits == {i \in 1..Len(matches) :
                    /\ matches[i].val.matched_rt # <<>>
                    /\ matches[i].val.matched_rt[1] # 0
                    /\ AbsDiff(rt_val, matches[i].val.matched_rt[1]) <= MatchEps}
    IN IF hits = {} THEN 0 ELSE CHOOSE i \in hits : \A j \in hits : i <= j

\* Lines 274-286: substance, is_predicted and rt_deviation of a row.
Resolve(has_compound, matches, row) ==
    LET cell == IF has_compound THEN row.compound ELSE <<>>
        hit == IF UsesRtLookup(has_compound, cell) /\ row.rt # <<>>
               THEN RtHit(matches, row.rt[1]) ELSE 0
    IN IF hit # 0
       THEN [substance |-> <<matches[hit].key>>, is_predicted |-> TRUE,
             rt_deviation |-> matches[hit].val.deviation]
       ELSE [substance |-> cell, is_predicted |-> FALSE, rt_deviation |-> <<>>]

\* Variant of StartEnzyme that keeps the record of an enzyme met before.
StartEnzymeKeep(reacs, enzyme) ==
    IF DictHas(reacs, enzyme) THEN reacs
    ELSE DictPut(reacs, enzyme, [products |-> <<>>, GALD |-> <<0>>])

\* Line 272: a labelled row (re)starts the record of its enzyme.
StartEnzyme(reacs, enzyme) ==
    DictPut(reacs, enzyme, [products |-> <<>>, GALD |-> <<0>>])

Product(name, peak, res) ==
    [name |-> name, peak |-> peak, is_predicted |-> res.is_predicted,
     rt_deviation |-> res.rt_deviation]

\* Lines 292-300: the first GALD-or-product block.
RecordFirst(rec, name, peak, res) ==
    IF name = "GALD" THEN [rec EXCEPT !.GALD = peak]
    ELSE [rec EXCEPT !.products = Append(@, Product(name, peak, res))]

\* Lines 302-310: the second GALD-or-product block.
RecordSecond(rec, name, peak, res) ==
    IF name = "GALD" THEN [rec EXCEPT !.GALD = peak]
    ELSE IF name # "Unknown"
         THEN [rec EXCEPT !.products = Append(@, Product(name, peak, res))]
         ELSE rec

\* Lines 288-310: what a resolved row does to the record of the current enzyme.
RecordPeak(rec, name, peak, res) ==
    RecordSecond(RecordFirst(rec, name, peak, res), name, peak, res)

\* Line 270: the row carries an enzyme label.
IsLabelled(row) == row.enzyme # <<>> /\ Strip(row.enzyme[1]) # ""

---------------------------------------------------------------------------
(* Calibration and yield *)

C4Standards(std) == SelectSeq(std, LAMBDA r : r.compound \in c4_sugar_names)

GaldRows(std) == SelectSeq(std, LAMBDA r : r.compound = "GALD")

\* Variant of C4Missing that looks at the whole sheet instead of its C4 rows.
C4MissingWholeSheet(std) == Len(std) = 0

\* Line 321: len(c4_standards) == 0
C4Missing(std) == Len(C4Standards(std)) = 0

\* Line 330: len(gald_row) == 0
GaldMissing(std) == Len(GaldRows(std)) = 0

\* area / concentration of one standard row.
ResponseOf(r) == FDiv(FromInt(r.area), FromInt(r.conc))

RECURSIVE SumSkipNa(_, _)
SumSkipNa(rows, i) ==
    IF i > Len(rows) THEN Zero
    ELSE IF IsNaN(ResponseOf(rows[i])) THEN SumSkipNa(rows, i + 1)
    ELSE FAdd(ResponseOf(rows[i]), SumSkipNa(rows, i + 1))

\* Line 325: (area / conc).mean(); pandas' mean skips nan.
C4Response(std) ==
    LET rows == C4Standards(std)
        n == Cardinality({i \in 1..Len(rows) : ~IsNaN(ResponseOf(rows[i]))})
    IN IF n = 0 THEN NaN ELSE FDiv(SumSkipNa(rows, 1), FromInt(n))

\* Line 334: the first GALD row's area / conc.
GaldResponse(std) == ResponseOf(GaldRows(std)[1])

\* Lines 356-361: the carbon mass of one product.
ProductCarbon(prod, c4r) ==
    FMul(FDiv(CellFloat(prod.peak), c4r), get_carbon_fraction(prod.name))

RECURSIVE TotalCarbon(_, _, _, _)
TotalCarbon(prods, c4r, i, acc) ==
    IF i > Len(prods) THEN acc
    ELSE TotalCarbon(prods, c4r, i + 1, FAdd(acc, ProductCarbon(prods[i], c4r)))

\* Line 364: (total_product_carbon / total) * 100 if total > 0 else 0
YieldPct(tpc, total) ==
    IF FPositive(total) THEN FMul(FDiv(tpc, total), FromInt(100)) ELSE Zero

\* Lines 352-375: the result record of one enzyme.
YieldResult(enzyme, data, c4r, gr) ==
    LET gald_carbon == FMul(FDiv(CellFloat(data.GALD), gr), GaldCarbonFraction)
        tpc == TotalCarbon(data.products, c4r, 1, Zero)
        total == FAdd(gald_carbon, tpc)
        yield_pct == YieldPct(tpc, total)
    IN [enzyme |-> enzyme,
        yield_pct |-> RoundUnits(yield_pct, 100),
        conversion_pct |-> RoundUnits(FSub(FromInt(100), yield_pct), 100),
        product_carbon |-> RoundUnits(tpc, 10000),
        gald_carbon |-> RoundUnits(gald_carbon, 10000),
        product_list |-> [i \in 1..Len(data.products) |-> data.products[i].name],
        products |-> [i \in 1..Len(data.products) |->
                        [name |-> data.products[i].name,
                         peak |-> data.products[i].peak,
                         carbon |-> ProductCarbon(data.products[i], c4r)]],
        gald_peak |-> data.GALD]

\* Variant of KeyLess that also holds for equal keys: an equal element is
\* moved in front of those already placed.
KeyLessOrEqual(a, b) == a # <<>> /\ b # <<>> /\ a[1] <= b[1]

\* a < b on rounded percentages (False when either is nan).
KeyLess(a, b) == a # <<>> /\ b # <<>> /\ a[1] < b[1]

\* Where the next element goes in a list sorted so far: behind every element
\* that is not smaller than it.
RECURSIVE InsertDesc(_, _)
InsertDesc(sorted, r) ==
    IF sorted = <<>> THEN <<r>>
    ELSE IF KeyLess(sorted[Len(sorted)].yield_pct, r.yield_pct)
         THEN Append(InsertDesc(SubSeq(sorted, 1, Len(sorted) - 1), r),
                     sorted[Len(sorted)])
         ELSE Append(sorted, r)

RECURSIVE SortFrom(_, _, _)
SortFrom(rs, i, sorted) ==
    IF i > Len(rs) THEN sorted ELSE SortFrom(rs, i + 1, InsertDesc(sorted, rs[i]))

\* Line 377: results.sort(key=yield_pct, reverse=True), a stable sort.
SortResults(rs) == SortFrom(rs, 1, <<>>)

---------------------------------------------------------------------------
(* The run *)

VARIABLES
    standard_df,     \* the standard sheet: rows [compound, area, conc, rt]
    reaction_df,     \* the reaction sheet: rows [enzyme, compound, rt, area]
    rxn_columns,     \* the roles found among the reaction sheet's columns
    pc,              \* position in the script
    error,           \* the message of st.error, "" when none was shown
    rt_matches,      \* scan_rt_matches' result, a dict in insertion order
    idx,             \* the reaction row the parsing loop reads next
    current_enzyme,  \* <<>> for None
    reactions,       \* dict enzyme -> [products, GALD], in insertion order
    c4_response,
    gald_response,
    results

vars == <<standard_df, reaction_df, rxn_columns, pc, error, rt_matches, idx,
          current_enzyme, reactions, c4_response, gald_response, results>>

input == <<standard_df, reaction_df, rxn_columns>>

has_compound == "compound" \in rxn_columns

\* st.error(msg) followed by st.stop().
Stop(msg) == pc' = "stopped" /\ error' = msg

\* Lines 232-242. Without a retention-time column rxn_rt_col stays
\* 'Retention_Time' and reaction_df[rxn_rt_col] raises KeyError, which the
\* handler of line 446 reports.
ScanRt ==
    /\ pc = "scan"
    /\ IF "rt" \in rxn_columns
       THEN /\ rt_matches' = scan_rt_matches(standard_df, reaction_df)
            /\ pc' = "columns"
            /\ error' = error
       ELSE /\ pc' = "failed"
            /\ error' = "Error: 'Retention_Time'"
            /\ rt_matches' = rt_matches
    /\ UNCHANGED <<input, idx, current_enzyme, reactions, c4_response,
                   gald_response, results>>

\* Lines 259-266.
CheckColumns ==
    /\ pc = "columns"
    /\ IF {"enzyme", "area"} \subseteq rxn_columns
       THEN pc' = "parse" /\ error' = error
       ELSE Stop("Required columns not found: Enzyme Name, Peak Area")
    /\ UNCHANGED <<input, rt_matches, idx, current_enzyme, reactions,
                   c4_response, gald_response, results>>

\* Lines 268-310, one iteration.
ParseRow ==
    /\ pc = "parse"
    /\ idx <= Len(reaction_df)
    /\ LET row == reaction_df[idx]
           cur == IF IsLabelled(row) THEN <<Strip(row.enzyme[1])>>
                                     ELSE current_enzyme
           started == IF IsLabelled(row) THEN StartEnzyme(reactions, cur[1])
                                         ELSE reactions
           res == Resolve(has_compound, rt_matches, row)
       IN /\ current_enzyme' = cur
          /\ reactions' =
                IF res.substance # <<>> /\ cur # <<>>
                THEN DictPut(started, cur[1],
                             RecordPeak(DictGet(started, cur[1]),
                                        Strip(res.substance[1]), row.area, res))
                ELSE started
    /\ idx' = idx + 1
    /\ UNCHANGED <<input, pc, error, rt_matches, c4_response, gald_response,
                   results>>

\* Lines 312-334, after the last row.
Calibrate ==
    /\ pc = "parse"
    /\ idx > Len(reaction_df)
    /\ IF reactions = <<>>
       THEN Stop("Reaction data not found") /\ UNCHANGED <<c4_response, gald_response>>
       ELSE IF C4Missing(standard_df)
       THEN Stop("C4 sugar standard data not found")
            /\ UNCHANGED <<c4_response, gald_response>>
       ELSE IF GaldMissing(standard_df)
       THEN /\ Stop("GALD standard data not found")
            /\ c4_response' = C4Response(standard_df)
            /\ gald_response' = gald_response
       ELSE /\ c4_response' = C4Response(standard_df)
            /\ gald_response' = GaldResponse(standard_df)
            /\ pc' = "yield"
            /\ error' = error
    /\ UNCHANGED <<input, rt_matches, idx, current_enzyme, reactions, results>>

\* Lines 351-375, one iteration.
ComputeYield ==
    /\ pc = "yield"
    /\ Len(results) < Len(reactions)
    /\ LET item == reactions[Len(results) + 1]
       IN results' = Append(results, YieldResult(item.key, item.val,
                                                 c4_response, gald_response))
    /\ UNCHANGED <<input, pc, error, rt_matches, idx, current_enzyme, reactions,
                   c4_response, gald_response>>

\* Line 377; the sorted list is what is displayed and exported.
Sort ==
    /\ pc = "yield"
    /\ Len(results) = Len(reactions)
    /\ results' = SortResults(results)
    /\ pc' = "done"
    /\ UNCHANGED <<input, error, rt_matches, idx, current_enzyme, reactions,
                   c4_response, gald_response>>

Next == ScanRt \/ CheckColumns \/ ParseRow \/ Calibrate \/ ComputeYield \/ Sort

\* The state before the script's first line on a workbook.
Start ==
    /\ pc = "scan"
    /\ error = ""
    /\ rt_matches = <<>>
    /\ idx = 1
    /\ current_enzyme = <<>>
    /\ reactions = <<>>
    /\ c4_response = NaN
    /\ gald_response = NaN
    /\ results = <<>>

---------------------------------------------------------------------------
(* The workbooks *)

StdRow(c, a, k, t) == [compound |-> c, area |-> a, conc |-> k, rt |-> t]

RxnRow(en, c, t, a) == [enzyme |-> en, compound |-> c, rt |-> t, area |-> a]

\* The nonempty sequences over S of length at most n.
SeqsUpTo(S, n) == UNION {[1..k -> S] : k \in 1..n}

\* One C4 standard with a retention time, and the GALD standard.
StdBase == <<StdRow("Erythrose", 100, 10, <<5000>>), StdRow("GALD", 50, 5, <<>>)>>

\* The cells a row may hold, by the columns the sheet has.
EnzymeCells == {<<>>, <<"E1">>, <<"E2">>}

CompoundCells(cols) ==
    IF "compound" \in cols THEN {<<>>, <<" ">>, <<"GALD">>, <<"Glucose">>}
                           ELSE {<<>>}

RtCells(cols, rts) == IF "rt" \in cols THEN rts ELSE {<<>>}

\* The area of the i-th row: every row of a generic sheet has its own.
AreaOfRow(i) == <<10 * i>>

\* The sheets of at most MaxRows rows over the given cells.
Sheets(enz, cmp, rts) ==
    {[i \in DOMAIN f |-> RxnRow(f[i][1], f[i][2], f[i][3], AreaOfRow(i))] :
        f \in SeqsUpTo(enz \X cmp \X rts, MaxRows)}

\* Section 8 of the specification: the enzyme-grouping example.
GroupingExample ==
    <<RxnRow(<<"E1">>, <<>>, <<>>, <<>>),
      RxnRow(<<>>, <<"GALD">>, <<>>, <<50>>),
      RxnRow(<<>>, <<"Glucose">>, <<>>, <<200>>),
      RxnRow(<<"E2">>, <<>>, <<>>, <<>>),
      RxnRow(<<>>, <<"GALD">>, <<>>, <<30>>)>>

ColumnSets ==
    {{"enzyme", "area"} \cup S : S \in SUBSET {"compound", "rt"}}
        \cup {{"area", "compound", "rt"}}

\* Parsing: every combination of columns, every short sheet of labelled and
\* unlabelled rows with explicit, blank and missing compound cells.
InitParse ==
    /\ Start
    /\ standard_df = StdBase
    /\ \/ /\ rxn_columns \in ColumnSets
          /\ reaction_df \in Sheets(IF "enzyme" \in rxn_columns
                                    THEN EnzymeCells ELSE {<<>>},
                                    CompoundCells(rxn_columns),
                                    RtCells(rxn_columns, {<<5000>>}))
       \/ /\ rxn_columns = {"enzyme", "area", "compound", "rt"}
          /\ reaction_df = GroupingExample

\* Retention-time sheets: no compound column, every row is resolved by its
\* retention time. References at 5.000 (and 5.200, or GALD at 5.400).
StdTwoRefs ==
    <<StdRow("Erythrose", 100, 10, <<5000>>), StdRow("Threose", 100, 10, <<5200>>),
      StdRow("GALD", 50, 5, <<>>)>>

StdGaldRef == <<StdRow("Erythrose", 100, 10, <<5000>>), StdRow("GALD", 50, 5, <<5400>>)>>

InitRT ==
    /\ Start
    /\ standard_df \in {StdBase, StdTwoRefs, StdGaldRef}
    /\ rxn_columns = {"enzyme", "area", "rt"}
    /\ reaction_df \in Sheets({<<>>, <<"E1">>}, {<<>>},
                              {<<>>, <<5000>>, <<5100>>, <<5200>>})

\* Yield sheets: blocks of a labelled GALD row and at most one product row.
\* The standards: the calibration example of section 8, a single C4 standard,
\* a zero concentration, a missing C4 or GALD standard.
StdVariants ==
    {<<StdRow("Erythrose", 100, 10, <<>>), StdRow("GALD", 50, 5, <<>>)>>,
     <<StdRow("Erythrose", 100, 10, <<>>), StdRow("Threose", 200, 20, <<>>),
       StdRow("GALD", 50, 5, <<>>)>>,
     <<StdRow("Erythrose", 100, 0, <<>>), StdRow("GALD", 50, 5, <<>>)>>,
     <<StdRow("Erythrose", 100, 10, <<>>), StdRow("GALD", 50, 0, <<>>)>>,
     <<StdRow("GALD", 50, 5, <<>>)>>,
     <<StdRow("Erythrose", 100, 10, <<>>)>>,
     <<StdRow("Glucose", 100, 10, <<>>)>>}

\* The product row of a block: none, a peak area, or a missing peak area.
ProductChoices == {"none", "1", "31", "nan"}

ProductRows(c) ==
    CASE c = "none" -> <<>>
      [] c = "1" -> <<RxnRow(<<>>, <<"Erythrose">>, <<>>, <<1>>)>>
      [] c = "31" -> <<RxnRow(<<>>, <<"Erythrose">>, <<>>, <<31>>)>>
      [] c = "nan" -> <<RxnRow(<<>>, <<"Erythrose">>, <<>>, <<>>)>>

BlockRows(b) == <<RxnRow(<<b[1]>>, <<"GALD">>, <<>>, <<b[2]>>)>> \o ProductRows(b[3])

RECURSIVE Concat(_, _)
Concat(bs, i) == IF i > Len(bs) THEN <<>> ELSE BlockRows(bs[i]) \o Concat(bs, i + 1)

InitYield ==
    /\ Start
    /\ standard_df \in StdVariants
    /\ rxn_columns = {"enzyme", "area", "compound", "rt"}
    /\ reaction_df \in
          {Concat(bs, 1) : bs \in SeqsUpTo({"E1", "E2"} \X {2, 62} \X ProductChoices,
                                            MaxEnz)}

Spec == InitParse /\ [][Next]_vars

SpecRT == InitRT /\ [][Next]_vars

SpecYield == InitYield /\ [][Next]_vars
---------------------------------------------------------------------------
(* What the sheet says, for the statements about the parser *)

Terminal == pc \in {"done", "stopped", "failed"}

\* The parsing loop has read every row.
ParsedAll == pc \in {"parse", "yield", "done", "stopped"} /\ idx > Len(reaction_df)

LabelOf(j) == Strip(reaction_df[j].enzyme[1])

\* The rows among 1..n that carry the label E.
LabelRows(E, n) == {j \in 1..n : IsLabelled(reaction_df[j]) /\ LabelOf(j) = E}

Labels(n) == {LabelOf(j) : j \in {i \in 1..n : IsLabelled(reaction_df[i])}}

LastLabelRow(E, n) == CHOOSE j \in LabelRows(E, n) : \A k \in LabelRows(E, n) : k <= j

FirstLabelRow(E) ==
    CHOOSE j \in LabelRows(E, Len(reaction_df)) :
        \A k \in LabelRows(E, Len(reaction_df)) : j <= k

\* Among the rows 1..n, the block of the last row labelled E: that row and
\* the unlabelled rows that follow it.
Block(E, n) ==
    {j \in LastLabelRow(E, n)..n :
        \A k \in (LastLabelRow(E, n) + 1)..j : ~IsLabelled(reaction_df[k])}

Rec(E) == DictGet(reactions, E)

ProductsOf(E) == {Rec(E).products[i] : i \in 1..Len(Rec(E).products)}

\* The compound the parser resolved row j to, <<>> when it skipped the row.
ResolvedName(j) ==
    LET s == Resolve(has_compound, rt_matches, reaction_df[j]).substance
    IN IF s = <<>> THEN <<>> ELSE <<Strip(s[1])>>

\* Row j left an entry named name in the record of E: a product with the row's
\* peak area; for GALD the substrate peak of the row, or of a later GALD row
\* of the block, which overwrites it.
RecordedAs(j, E, name, n) ==
    IF name = "GALD"
    THEN \E k \in Block(E, n) : k >= j /\ Rec(E).GALD = reaction_df[k].area
    ELSE \E p \in ProductsOf(E) : p.name = name /\ p.peak = reaction_df[j].area

\* Row j left no entry in the record of E.
NotRecorded(j, E) ==
    /\ Rec(E).GALD # reaction_df[j].area
    /\ \A p \in ProductsOf(E) : p.peak # reaction_df[j].area

\* The compound cell of row j holds a name.
ExplicitCompound(j) ==
    /\ has_compound
    /\ reaction_df[j].compound # <<>>
    /\ Strip(reaction_df[j].compound[1]) # ""

\* The references of the standard sheet within the tolerance of t.
RefsWithin(t) ==
    {i \in 1..Len(StdRts(standard_df)) :
        AbsDiff(t, StdRts(standard_df)[i].rt[1]) <= Tolerance}

\* Those among them that are nearest to t.
NearestRefs(t) ==
    {i \in RefsWithin(t) :
        \A k \in RefsWithin(t) :
            AbsDiff(t, StdRts(standard_df)[i].rt[1])
                <= AbsDiff(t, StdRts(standard_df)[k].rt[1])}

---------------------------------------------------------------------------
(* Statements about the parser *)

\* C1: when all rows are parsed, the product list of every enzyme has exactly
\* one entry per contributing row of its block whose resolved compound is not
\* "GALD" (a "GALD" row adds none); on the grouping example E1 has one product
\* and substrate peak 50, E2 no product and substrate peak 30.
OneEntryPerProductRow ==
    ParsedAll =>
        /\ \A i \in 1..Len(reactions) :
              Len(reactions[i].val.products) =
                  Cardinality({j \in Block(reactions[i].key, Len(reaction_df)) :
                                  /\ ResolvedName(j) # <<>>
                                  /\ ResolvedName(j) # <<"GALD">>})
        /\ reaction_df = GroupingExample =>
              /\ Len(reactions) = 2
              /\ Len(Rec("E1").products) = 1 /\ Rec("E1").GALD = <<50>>
              /\ Len(Rec("E2").products) = 0 /\ Rec("E2").GALD = <<30>>

\* C4: when all rows are parsed, a row of an enzyme's block with a name in its
\* compound cell is recorded under that name, and a row whose compound cell is
\* blank or missing, in a sheet with a retention-time column, is resolved by
\* its retention time (recorded as a predicted peak when a reference lies
\* within the tolerance) instead of being skipped.
CompoundCellElseRetentionTime ==
    ParsedAll =>
        \A E \in Labels(Len(reaction_df)) :
            \A j \in Block(E, Len(reaction_df)) :
                /\ ExplicitCompound(j) =>
                      RecordedAs(j, E, Strip(reaction_df[j].compound[1]),
                                 Len(reaction_df))
                /\ (/\ ~ExplicitCompound(j)
                    /\ "rt" \in rxn_columns
                    /\ reaction_df[j].rt # <<>>
                    /\ RefsWithin(reaction_df[j].rt[1]) # {})
                      => ~NotRecorded(j, E)

\* C5: a workbook whose reaction sheet has enzyme, area and compound columns
\* and no retention-time column runs to the end, with one result per enzyme.
NoRtColumnAccepted ==
    (/\ Terminal
     /\ {"enzyme", "area", "compound"} \subseteq rxn_columns
     /\ "rt" \notin rxn_columns
     /\ Labels(Len(reaction_df)) # {})
        => /\ pc = "done"
           /\ Len(results) = Cardinality(Labels(Len(reaction_df)))

\* C10: after any number of rows, every entry recorded under an enzyme E comes
\* from a row of the block of the last row labelled E, every contributing row
\* of that block is recorded under E, the enzymes with a record are the labels
\* seen (so rows before the first label are recorded nowhere), and a repeated
\* label keeps nothing of its earlier block.
EntriesComeFromLastBlock ==
    (pc = "parse" \/ ParsedAll) =>
        LET n == idx - 1 IN
        /\ {reactions[i].key : i \in 1..Len(reactions)} = Labels(n)
        /\ \A E \in Labels(n) :
              /\ \A p \in ProductsOf(E) :
                    \E j \in Block(E, n) :
                        /\ reaction_df[j].area = p.peak
                        /\ ResolvedName(j) = <<p.name>>
              /\ \/ Rec(E).GALD = <<0>>
                 \/ \E j \in Block(E, n) :
                        /\ reaction_df[j].area = Rec(E).GALD
                        /\ ResolvedName(j) = <<"GALD">>
              /\ \A j \in Block(E, n) :
                    ResolvedName(j) # <<>> => RecordedAs(j, E, ResolvedName(j)[1], n)

\* The label E1 came back after E2's block and an earlier E1 block had a
\* product: the record of E1 was started again.
RepeatedLabelReached ==
    /\ ParsedAll
    /\ Len(reaction_df) = 3
    /\ IsLabelled(reaction_df[1]) /\ LabelOf(1) = "E1"
    /\ ResolvedName(1) = <<"Glucose">>
    /\ IsLabelled(reaction_df[2]) /\ LabelOf(2) = "E2"
    /\ IsLabelled(reaction_df[3]) /\ LabelOf(3) = "E1"
    /\ Len(reactions) = 2

\* The row is one the parser resolves by retention time, and it has one.
RtResolved(j) ==
    /\ UsesRtLookup(has_compound,
                    IF has_compound THEN reaction_df[j].compound ELSE <<>>)
    /\ reaction_df[j].rt # <<>>

RefName(i) == StdRts(standard_df)[i].compound

\* C2: when all rows are parsed, a row resolved by retention time has an entry
\* under a reference compound only if that compound's standard retention time
\* is within 0.15 of the row's, and a row farther than 0.15 from every
\* reference has no entry at all.
MatchOnlyWithinTolerance ==
    ParsedAll =>
        \A E \in Labels(Len(reaction_df)) :
            \A j \in Block(E, Len(reaction_df)) :
                RtResolved(j) =>
                    LET near == {RefName(i) : i \in RefsWithin(reaction_df[j].rt[1])}
                    IN /\ near = {} => NotRecorded(j, E)
                       /\ \A p \in ProductsOf(E) :
                             p.peak = reaction_df[j].area => p.name \in near
                       /\ Rec(E).GALD = reaction_df[j].area => "GALD" \in near

\* C3: when all rows are parsed, every row resolved by retention time that
\* has a reference within 0.15 is recorded under a reference nearest to it,
\* whatever the other rows are.
ResolvedToNearestReference ==
    ParsedAll =>
        \A E \in Labels(Len(reaction_df)) :
            \A j \in Block(E, Len(reaction_df)) :
                (RtResolved(j) /\ RefsWithin(reaction_df[j].rt[1]) # {}) =>
                    \E i \in NearestRefs(reaction_df[j].rt[1]) :
                        RecordedAs(j, E, RefName(i), Len(reaction_df))

---------------------------------------------------------------------------
(* Statements about calibration and yield *)

\* The standard sheet has no row whose compound is exactly "GALD".
NoGaldStandard == \A i \in 1..Len(standard_df) : standard_df[i].compound # "GALD"

\* The standard sheet has no row whose compound is a recognized C4 sugar.
NoC4Standard ==
    \A i \in 1..Len(standard_df) :
        standard_df[i].compound \notin {"Erythrose", "Threose", "Erythrulose"}

\* C6: a standard sheet without a GALD row or without a C4 row never gives a
\* result: the run does not reach the yield calculation, and when it gets as
\* far as the calibration it stops there with the message of the missing
\* standard.
NoResultWithoutCalibration ==
    (NoGaldStandard \/ NoC4Standard) =>
        /\ results = <<>>
        /\ pc \notin {"yield", "done"}
        /\ (Terminal /\ ParsedAll /\ reactions # <<>>) =>
              /\ pc = "stopped"
              /\ error \in {"C4 sugar standard data not found",
                            "GALD standard data not found"}

\* A run with parsed enzymes stopped at the calibration.
StoppedAtCalibration ==
    /\ pc = "stopped"
    /\ reactions # <<>>
    /\ error = "GALD standard data not found"
    /\ results = <<>>

\* The standard rows the response factors are computed from.
ContributingStandards ==
    {C4Standards(standard_df)[i] : i \in 1..Len(C4Standards(standard_df))}
        \cup (IF NoGaldStandard THEN {} ELSE {GaldRows(standard_df)[1]})

\* A row of an enzyme's block that is resolved to a compound and has no area.
MissingPeak ==
    \E E \in Labels(Len(reaction_df)) :
        \E j \in Block(E, Len(reaction_df)) :
            ResolvedName(j) # <<>> /\ reaction_df[j].area = <<>>

\* C7: a run on a contributing standard of concentration 0, or on a
\* contributing reaction row without a peak area, ends in an error and gives
\* no result.
NumericErrorsAreFatal ==
    (/\ Terminal
     /\ \/ \E r \in ContributingStandards : r.conc = 0
        \/ MissingPeak)
        => pc # "done" /\ results = <<>>

\* C8: the rounded yield and the rounded conversion of every result sum to
\* exactly 100 (10000 hundredths).
YieldPlusConversionIs100 ==
    \A i \in 1..Len(results) :
        (results[i].yield_pct # <<>> /\ results[i].conversion_pct # <<>>) =>
            results[i].yield_pct[1] + results[i].conversion_pct[1] = 10000

\* C9: the finished result list is in non-increasing order of yield_pct, and
\* results of equal yield_pct are in the order in which their enzymes' labels
\* first appear in the reaction sheet.
RankedByYieldStable ==
    pc = "done" =>
        \A i, j \in 1..Len(results) :
            i < j =>
                /\ results[i].yield_pct # <<>> /\ results[j].yield_pct # <<>>
                /\ \/ results[j].yield_pct[1] < results[i].yield_pct[1]
                   \/ /\ results[j].yield_pct[1] = results[i].yield_pct[1]
                      /\ FirstLabelRow(results[i].enzyme)
                            < FirstLabelRow(results[j].enzyme)

\* Two enzymes of equal yield, the one labelled E2 met first in the sheet.
TieInEncounterOrder ==
    /\ pc = "done"
    /\ Len(results) = 2
    /\ results[1].yield_pct = results[2].yield_pct
    /\ results[1].enzyme = "E2"
    /\ results[1].yield_pct = <<5000>>

=============================================================================
